---- MODULE Spec2Model ----
(***************************************************************************)
(* Model of package endpoint (endpoint/endpoint.go): the Endpoint record,  *)
(* its constructors, MergeLabels, the three validating geolocation setters *)
(* and String.                                                             *)
(*                                                                         *)
(* Go strings are modelled as sequences of one-character strings, so that  *)
(* strings.TrimSuffix, regexp.Match and fmt.Sprintf are computed character *)
(* by character.  A Go map is a record [nil, kv]: nil tells the nil map    *)
(* from the empty one, kv is the key/value function.                       *)
(***************************************************************************)
EXTENDS Integers, Sequences, FiniteSets, TLC

VARIABLES e, in, lastOp, code, labels, err, out, configured, panicked

vars == <<e, in, lastOp, code, labels, err, out, configured, panicked>>

\* ------------------------------------------------------------------ bounds
MaxNameLen == 2
MaxCodeLen == 4
MaxValLen == 2
MaxTTL == 1

\* ----------------------------------------------------------------- strings
EmptyString == <<>>

SeqsUpTo(S, n) == UNION {[1..k -> S] : k \in 0..n}

HasSuffix(s, suffix) ==
    /\ Len(s) >= Len(suffix)
    /\ SubSeq(s, Len(s) - Len(suffix) + 1, Len(s)) = suffix

TrimSuffix(s, suffix) ==
    IF HasSuffix(s, suffix) THEN SubSeq(s, 1, Len(s) - Len(suffix)) ELSE s

\* fmt's %d verb: decimal digits, most significant first, '-' for negatives
DigitChar(d) == <<"0", "1", "2", "3", "4", "5", "6", "7", "8", "9">>[d + 1]

RECURSIVE Digits(_)
Digits(n) == IF n < 10 THEN <<DigitChar(n)>>
             ELSE Digits(n \div 10) \o <<DigitChar(n % 10)>>

FormatInt(n) == IF n < 0 THEN <<"-">> \o Digits(0 - n) ELSE Digits(n)

\* ----------------------------------------------------------------- regexps
Upper == {"A", "B", "C", "D", "E", "F", "G", "H", "I", "J", "K", "L", "M",
          "N", "O", "P", "Q", "R", "S", "T", "U", "V", "W", "X", "Y", "Z"}

Lit(s) == [op |-> "lit", s |-> s]
Alt(rs) == [op |-> "alt", rs |-> rs]
Rep(cls, lo, hi) == [op |-> "rep", cls |-> cls, lo |-> lo, hi |-> hi]
Opt(r) == [op |-> "opt", r |-> r]

\* regexp.Match for a pattern ^re$ : without the m flag ^ and $ match only
\* at the two ends of the text, so the whole text must be in re's language
RECURSIVE Match(_, _)
Match(re, s) ==
    CASE re.op = "lit" -> s = re.s
      [] re.op = "alt" -> \E i \in DOMAIN re.rs : Match(re.rs[i], s)
      [] re.op = "rep" -> /\ Len(s) >= re.lo
                          /\ Len(s) <= re.hi
                          /\ \A i \in DOMAIN s : s[i] \in re.cls
      [] re.op = "opt" -> s = EmptyString \/ Match(re.r, s)

\* "^(AF|AN|AS|EU|OC|NA|SA|\\*)?$"
ContinentCodeRe ==
    Opt(Alt(<<Lit(<<"A", "F">>), Lit(<<"A", "N">>), Lit(<<"A", "S">>),
              Lit(<<"E", "U">>), Lit(<<"O", "C">>), Lit(<<"N", "A">>),
              Lit(<<"S", "A">>), Lit(<<"*">>)>>))

\* "^([A-Z]{1,2}|\\*)?$"
CountryCodeReWide == Opt(Alt(<<Rep(Upper, 1, 3), Lit(<<"*">>)>>))
CountryCodeRe == Opt(Alt(<<Rep(Upper, 1, 2), Lit(<<"*">>)>>))

\* "^([A-Z]{1,3})?$"
SubdivisionCodeRe == Opt(Rep(Upper, 1, 3))

\* -------------------------------------------------------------------- maps
OwnerLabelKey == "owner"

EmptyKV == [k \in {} |-> EmptyString]
NilMap == [nil |-> TRUE, kv |-> EmptyKV]
MakeMap(kv) == [nil |-> FALSE, kv |-> kv]

\* m[k]: the zero value "" for a missing key, also on a nil map
Get(m, k) == IF k \in DOMAIN m.kv THEN m.kv[k] ELSE EmptyString

\* m[k] = v on a non-nil map
Put(m, k, v) ==
    [m EXCEPT !.kv = [x \in (DOMAIN m.kv) \cup {k} |-> IF x = k THEN v ELSE m.kv[x]]]

\* ---------------------------------------------------------------- Endpoint
TTL(n) == n

IsConfiguredNonZero(ttl) == ttl # 0
IsConfigured(ttl) == ttl > 0

GeoLocation == [ContinentCode |-> EmptyString, CountryCode |-> EmptyString,
                SubdivisionCode |-> EmptyString]

NewEndpointWithTTLNoTrim(dnsName, target, recordType, ttl) ==
    [DNSName |-> TrimSuffix(dnsName, <<".">>),
     Target |-> target,
     RecordType |-> recordType,
     Labels |-> MakeMap(EmptyKV),
     RecordTTL |-> ttl,
     GeoLocation |-> GeoLocation]
NewEndpointWithTTLNilLabels(dnsName, target, recordType, ttl) ==
    [DNSName |-> TrimSuffix(dnsName, <<".">>),
     Target |-> TrimSuffix(target, <<".">>),
     RecordType |-> recordType,
     Labels |-> NilMap,
     RecordTTL |-> ttl,
     GeoLocation |-> GeoLocation]
NewEndpointWithTTL(dnsName, target, recordType, ttl) ==
    [DNSName |-> TrimSuffix(dnsName, <<".">>),
     Target |-> TrimSuffix(target, <<".">>),
     RecordType |-> recordType,
     Labels |-> MakeMap(EmptyKV),
     RecordTTL |-> ttl,
     GeoLocation |-> GeoLocation]

NewEndpoint(dnsName, target, recordType) ==
    NewEndpointWithTTL(dnsName, target, recordType, TTL(0))

\* The range loop of MergeLabels over the keys still to visit.  Go visits
\* the keys in an unspecified order; each iteration reads and writes only
\* its own key.  A write to a nil receiver map panics.
RECURSIVE MergeLoop(_, _, _)
MergeLoop(st, m, todo) ==
    IF todo = {} \/ st.panicked THEN st
    ELSE LET k == CHOOSE x \in todo : TRUE
             v == m.kv[k]
         IN IF Get(st.Labels, k) = EmptyString
            THEN IF st.Labels.nil
                 THEN [st EXCEPT !.panicked = TRUE]
                 ELSE MergeLoop([st EXCEPT !.Labels = Put(st.Labels, k, v)],
                                m, todo \ {k})
            ELSE MergeLoop(st, m, todo \ {k})

MergeLabelsOverwrite(ep, m) ==
    IF m.nil THEN [e |-> ep, panicked |-> FALSE]
    ELSE [e |-> [ep EXCEPT !.Labels =
                    MakeMap([x \in (DOMAIN ep.Labels.kv) \cup (DOMAIN m.kv) |->
                               IF x \in DOMAIN m.kv THEN m.kv[x]
                               ELSE ep.Labels.kv[x]])],
          panicked |-> FALSE]
MergeLabels(ep, m) ==
    LET r == MergeLoop([Labels |-> ep.Labels, panicked |-> FALSE], m, DOMAIN m.kv)
    IN [e |-> [ep EXCEPT !.Labels = r.Labels], panicked |-> r.panicked]

SetContinentCodeNoCheck(ep, continentCode) ==
    [e |-> [ep EXCEPT !.GeoLocation.ContinentCode = continentCode], err |-> FALSE]
SetContinentCode(ep, continentCode) ==
    IF Match(ContinentCodeRe, continentCode)
    THEN [e |-> [ep EXCEPT !.GeoLocation.ContinentCode = continentCode],
          err |-> FALSE]
    ELSE [e |-> ep, err |-> TRUE]

SetCountryCodeWrongField(ep, countryCode) ==
    IF Match(CountryCodeRe, countryCode)
    THEN [e |-> [ep EXCEPT !.GeoLocation.SubdivisionCode = countryCode],
          err |-> FALSE]
    ELSE [e |-> ep, err |-> TRUE]
SetCountryCodeNeedsContinent(ep, countryCode) ==
    IF /\ Match(CountryCodeRe, countryCode)
       /\ (countryCode = EmptyString \/ ep.GeoLocation.ContinentCode # EmptyString)
    THEN [e |-> [ep EXCEPT !.GeoLocation.CountryCode = countryCode],
          err |-> FALSE]
    ELSE [e |-> ep, err |-> TRUE]
SetCountryCode(ep, countryCode) ==
    IF Match(CountryCodeRe, countryCode)
    THEN [e |-> [ep EXCEPT !.GeoLocation.CountryCode = countryCode],
          err |-> FALSE]
    ELSE [e |-> ep, err |-> TRUE]

SetSubdivisionCode(ep, subdivisionCode) ==
    IF Match(SubdivisionCodeRe, subdivisionCode)
    THEN [e |-> [ep EXCEPT !.GeoLocation.SubdivisionCode = subdivisionCode],
          err |-> FALSE]
    ELSE [e |-> ep, err |-> TRUE]

\* fmt.Sprintf("%s %d IN %s %s", ...)
StringNoTTL(ep) ==
    ep.DNSName \o <<" ">> \o <<"I", "N", " ">> \o ep.RecordType \o <<" ">> \o ep.Target
String(ep) ==
    ep.DNSName \o <<" ">> \o FormatInt(ep.RecordTTL) \o <<" ", "I", "N", " ">>
        \o ep.RecordType \o <<" ">> \o ep.Target

\* ------------------------------------------------------------ input domains
RecordTypeA == <<"A">>
RecordTypeCNAME == <<"C", "N", "A", "M", "E">>
RecordTypeTXT == <<"T", "X", "T">>

NameChars == {"a", "."}
Names == SeqsUpTo(NameChars, MaxNameLen)
ExampleName == <<"e", "x", "a", "m", "p", "l", "e", ".", "c", "o", "m", ".">>
ExampleTarget == <<"1", ".", "2", ".", "3", ".", "4">>
TTLs == ((0 - MaxTTL)..MaxTTL) \cup {300}

\* the codes named by the documentation of the setters, and some near misses
CodeExamples ==
    {<<"*">>, <<"A", "F">>, <<"A", "N">>, <<"A", "S">>, <<"E", "U">>,
     <<"O", "C">>, <<"N", "A">>, <<"S", "A">>, <<"X", "X">>, <<"C", "A">>,
     <<"A", "B", "C">>, <<"a", "b", "c", "d">>, <<"e", "u">>, <<"*", "*">>,
     <<"E">>, <<"E", "U", "\n">>}
Codes == SeqsUpTo({"A"}, MaxCodeLen) \cup CodeExamples
FewCodes == {EmptyString, <<"E", "U">>, <<"a", "b", "c", "d">>}
OrderCodes == {EmptyString, <<"E", "U">>, <<"*">>, <<"X", "X">>,
               <<"A", "B", "C">>, <<"a", "b", "c", "d">>}

LabelKeys == {OwnerLabelKey, "k"}
LabelVals == SeqsUpTo({"x"}, MaxValLen)
MapsOver(K, V) == {NilMap} \cup {MakeMap(kv) : kv \in UNION {[D -> V] : D \in SUBSET K}}
Maps == MapsOver(LabelKeys, LabelVals)
FewMaps == MapsOver({OwnerLabelKey}, {EmptyString, <<"x">>})
NoMaps == {NilMap, MakeMap(EmptyKV)}

\* ------------------------------------------------------------------- states
\* labels when the last call was not MergeLabels
NoLabels == [alias |-> FALSE, given |-> NilMap, after |-> NilMap]

Constructed(ep, args, op) ==
    /\ e = ep
    /\ in = args
    /\ lastOp = op
    /\ code = EmptyString
    /\ labels = NoLabels
    /\ err = FALSE
    /\ out = EmptyString
    /\ configured = FALSE
    /\ panicked = FALSE

InitWith(N, T, R, L) ==
    \E dnsName \in N, target \in T, recordType \in R :
        \/ \E ttl \in L :
              Constructed(NewEndpointWithTTL(dnsName, target, recordType, ttl),
                          [ctor |-> "NewEndpointWithTTL", dnsName |-> dnsName,
                           target |-> target, recordType |-> recordType,
                           ttl |-> ttl],
                          "NewEndpointWithTTL")
        \/ Constructed(NewEndpoint(dnsName, target, recordType),
                       [ctor |-> "NewEndpoint", dnsName |-> dnsName,
                        target |-> target, recordType |-> recordType,
                        ttl |-> TTL(0)],
                       "NewEndpoint")

InitExample == InitWith({ExampleName}, {ExampleTarget}, {RecordTypeA}, {300})

\* e.MergeLabels(labels); alias: the caller passes e.Labels itself.
\* labels.given is the mapping as passed, labels.after the same mapping
\* object when the call has returned.
CallMergeLabels(M) ==
    /\ ~panicked
    /\ \E m \in M, alias \in BOOLEAN :
          LET input == IF alias THEN e.Labels ELSE m
              r == MergeLabels(e, input)
              after == IF alias THEN r.e.Labels ELSE input
          IN /\ e' = r.e
             /\ panicked' = r.panicked
             /\ labels' = [alias |-> alias, given |-> input, after |-> after]
    /\ lastOp' = "MergeLabels"
    /\ code' = EmptyString
    /\ err' = FALSE
    /\ out' = EmptyString
    /\ configured' = FALSE
    /\ UNCHANGED in

Returned(r, op, c) ==
    /\ e' = r.e
    /\ err' = r.err
    /\ lastOp' = op
    /\ code' = c
    /\ labels' = NoLabels
    /\ out' = EmptyString
    /\ configured' = FALSE
    /\ UNCHANGED <<in, panicked>>

CallSetContinentCode(C) ==
    /\ ~panicked
    /\ \E c \in C : Returned(SetContinentCode(e, c), "SetContinentCode", c)

CallSetCountryCode(C) ==
    /\ ~panicked
    /\ \E c \in C : Returned(SetCountryCode(e, c), "SetCountryCode", c)

CallSetSubdivisionCode(C) ==
    /\ ~panicked
    /\ \E c \in C : Returned(SetSubdivisionCode(e, c), "SetSubdivisionCode", c)

CallString ==
    /\ ~panicked
    /\ out' = String(e)
    /\ lastOp' = "String"
    /\ code' = EmptyString
    /\ labels' = NoLabels
    /\ err' = FALSE
    /\ configured' = FALSE
    /\ UNCHANGED <<e, in, panicked>>

CallIsConfigured ==
    /\ ~panicked
    /\ configured' = IsConfigured(e.RecordTTL)
    /\ lastOp' = "IsConfigured"
    /\ code' = EmptyString
    /\ labels' = NoLabels
    /\ err' = FALSE
    /\ out' = EmptyString
    /\ UNCHANGED <<e, in, panicked>>

\* ----------------------------------------------------------- specifications
\* every name up to MaxNameLen, few labels and codes
Init ==
    \/ InitWith(Names, Names, {RecordTypeA, RecordTypeCNAME}, TTLs)
    \/ InitExample

Next ==
    \/ CallMergeLabels(FewMaps)
    \/ CallSetContinentCode(FewCodes)
    \/ CallSetCountryCode(FewCodes)
    \/ CallSetSubdivisionCode(FewCodes)
    \/ CallString
    \/ CallIsConfigured

Spec == Init /\ [][Next]_vars

\* every code up to MaxCodeLen on one endpoint
InitGeo == InitExample

NextGeo ==
    \/ CallMergeLabels(NoMaps)
    \/ CallSetContinentCode(Codes)
    \/ CallSetCountryCode(Codes)
    \/ CallSetSubdivisionCode(Codes)
    \/ CallString
    \/ CallIsConfigured

SpecGeo == InitGeo /\ [][NextGeo]_vars

\* every label mapping over LabelKeys and LabelVals on one endpoint
InitLabels == InitExample

NextLabels ==
    \/ CallMergeLabels(Maps)
    \/ CallSetContinentCode(FewCodes)
    \/ CallSetCountryCode(FewCodes)
    \/ CallSetSubdivisionCode(FewCodes)
    \/ CallString
    \/ CallIsConfigured

SpecLabels == InitLabels /\ [][NextLabels]_vars

\* the codes of OrderCodes on one endpoint
InitOrder == InitExample

NextOrder ==
    \/ CallMergeLabels(NoMaps)
    \/ CallSetContinentCode(OrderCodes)
    \/ CallSetCountryCode(OrderCodes)
    \/ CallSetSubdivisionCode(OrderCodes)
    \/ CallString
    \/ CallIsConfigured

SpecOrder == InitOrder /\ [][NextOrder]_vars

\* ------------------------------------------------------------------ claims
EndsWithDot(s) == Len(s) > 0 /\ s[Len(s)] = "."
EndsWithTwoDots(s) == Len(s) > 1 /\ s[Len(s)] = "." /\ s[Len(s) - 1] = "."
EndsWithOneDot(s) == EndsWithDot(s) /\ ~EndsWithTwoDots(s)
ButLast(s) == [i \in 1..(Len(s) - 1) |-> s[i]]

Constructors == {"NewEndpoint", "NewEndpointWithTTL"}
Setters == {"SetContinentCode", "SetCountryCode", "SetSubdivisionCode"}

\* C1 (as claimed): in every reachable state neither DNSName nor Target
\* ends with the character '.'.
C1_NoTrailingDot == ~EndsWithDot(e.DNSName) /\ ~EndsWithDot(e.Target)

\* C1 (amended): in every reachable state DNSName does not end with '.'
\* when the dnsName given to the constructor did not end with two '.', and
\* likewise Target for the target given to the constructor.
C1_NoTrailingDotUnlessTwo ==
    /\ ~EndsWithTwoDots(in.dnsName) => ~EndsWithDot(e.DNSName)
    /\ ~EndsWithTwoDots(in.target) => ~EndsWithDot(e.Target)

C1_Witness ==
    /\ lastOp \in Setters
    /\ EndsWithOneDot(in.dnsName)
    /\ EndsWithOneDot(in.target)
    /\ Len(e.Target) > 0

\* C2: in every reachable state GeoLocation is well-formed: ContinentCode is
\* one of "", AF, AN, AS, EU, OC, NA, SA, "*"; CountryCode is "", "*" or one
\* or two letters A-Z; SubdivisionCode is "" or one to three letters A-Z.
ValidContinentCodes ==
    {<<>>, <<"A", "F">>, <<"A", "N">>, <<"A", "S">>, <<"E", "U">>, <<"O", "C">>,
     <<"N", "A">>, <<"S", "A">>, <<"*">>}
UpperWord(s, n) == Len(s) \in 1..n /\ \A i \in 1..Len(s) : s[i] \in Upper
ValidCountryCode(s) == s = <<>> \/ s = <<"*">> \/ UpperWord(s, 2)
ValidSubdivisionCode(s) == s = <<>> \/ UpperWord(s, 3)

C2_GeoLocationWellFormed ==
    /\ e.GeoLocation.ContinentCode \in ValidContinentCodes
    /\ ValidCountryCode(e.GeoLocation.CountryCode)
    /\ ValidSubdivisionCode(e.GeoLocation.SubdivisionCode)

C2_Witness ==
    /\ lastOp = "SetCountryCode"
    /\ code = <<"A", "B", "C">>
    /\ err
    /\ e.GeoLocation.CountryCode = <<"C", "A">>
    /\ e.GeoLocation.ContinentCode = <<"N", "A">>
    /\ e.GeoLocation.SubdivisionCode = <<"A", "B", "C">>

\* C3: a setter called with a string that matches its pattern returns no
\* error and the field equals the string afterwards; called with any other
\* string it returns an error and the field keeps its value.
C3_Outcome(op, valid, old, new) ==
    lastOp' = op =>
        IF valid THEN ~err' /\ new = code' ELSE err' /\ new = old

C3_SetterContract ==
    [][/\ C3_Outcome("SetContinentCode", code' \in ValidContinentCodes,
                     e.GeoLocation.ContinentCode, e'.GeoLocation.ContinentCode)
       /\ C3_Outcome("SetCountryCode", ValidCountryCode(code'),
                     e.GeoLocation.CountryCode, e'.GeoLocation.CountryCode)
       /\ C3_Outcome("SetSubdivisionCode", ValidSubdivisionCode(code'),
                     e.GeoLocation.SubdivisionCode, e'.GeoLocation.SubdivisionCode)]_vars

C3_Witness ==
    /\ lastOp = "SetContinentCode"
    /\ code = <<"X", "X">>
    /\ err
    /\ e.GeoLocation.ContinentCode = <<"E", "U">>

\* C4: MergeLabels keeps every non-empty value of the receiver, and gives
\* every key of the input that was absent or empty in the receiver the
\* input's value; no step ever changes a non-empty label value.
C4_MergeStep ==
    lastOp' = "MergeLabels" =>
        \A k \in DOMAIN labels'.given.kv :
            Get(e.Labels, k) = <<>> =>
                /\ k \in DOMAIN e'.Labels.kv
                /\ e'.Labels.kv[k] = labels'.given.kv[k]

C4_Kept ==
    \A k \in DOMAIN e.Labels.kv :
        e.Labels.kv[k] # <<>> =>
            /\ k \in DOMAIN e'.Labels.kv
            /\ e'.Labels.kv[k] = e.Labels.kv[k]

C4_MergeNeverOverwrites == [][C4_MergeStep /\ C4_Kept]_vars

C4_Witness ==
    /\ lastOp = "MergeLabels"
    /\ ~labels.alias
    /\ DOMAIN labels.given.kv = {OwnerLabelKey, "k"}
    /\ labels.given.kv["k"] = <<"x", "x">>
    /\ labels.given.kv[OwnerLabelKey] = <<"x">>
    /\ e.Labels.kv["k"] = <<"x">>
    /\ e.Labels.kv[OwnerLabelKey] = <<"x">>

\* C5: a dnsName (target) that ends in exactly one '.' is stored without
\* that last character; one that does not end in '.' is stored unchanged.
C5_Stored(given, stored) ==
    /\ EndsWithOneDot(given) => stored = ButLast(given)
    /\ ~EndsWithDot(given) => stored = given

C5_StripsOneDot ==
    /\ C5_Stored(in.dnsName, e.DNSName)
    /\ C5_Stored(in.target, e.Target)

C5_Witness ==
    /\ lastOp \in Constructors
    /\ EndsWithOneDot(in.dnsName)
    /\ Len(in.dnsName) > 1
    /\ ~EndsWithDot(in.target)
    /\ Len(in.target) > 1

\* C6: String returns "<DNSName> <RecordTTL in decimal> IN <RecordType>
\* <Target>" of the stored fields, separated by single spaces; the record of
\* ("example.com.", "1.2.3.4", "A") with ttl 300 gives
\* "example.com 300 IN A 1.2.3.4".
DigitValue(c) ==
    CASE c = "0" -> 0 [] c = "1" -> 1 [] c = "2" -> 2 [] c = "3" -> 3
      [] c = "4" -> 4 [] c = "5" -> 5 [] c = "6" -> 6 [] c = "7" -> 7
      [] c = "8" -> 8 [] c = "9" -> 9 [] OTHER -> 10

RECURSIVE DecimalValue(_)
DecimalValue(d) ==
    IF d = <<>> THEN 0
    ELSE 10 * DecimalValue(ButLast(d)) + DigitValue(d[Len(d)])

IsNatural(d) ==
    /\ Len(d) > 0
    /\ \A i \in 1..Len(d) : DigitValue(d[i]) < 10
    /\ Len(d) > 1 => d[1] # "0"

IsDecimalOf(d, n) ==
    IF n < 0
    THEN /\ Len(d) > 1
         /\ d[1] = "-"
         /\ IsNatural(Tail(d))
         /\ DecimalValue(Tail(d)) = 0 - n
    ELSE IsNatural(d) /\ DecimalValue(d) = n

C6_Line(line, ep) ==
    LET head == ep.DNSName \o <<" ">>
        tail == <<" ", "I", "N", " ">> \o ep.RecordType \o <<" ">> \o ep.Target
        n == Len(line) - Len(head) - Len(tail)
    IN /\ n > 0
       /\ SubSeq(line, 1, Len(head)) = head
       /\ SubSeq(line, Len(line) - Len(tail) + 1, Len(line)) = tail
       /\ IsDecimalOf(SubSeq(line, Len(head) + 1, Len(head) + n), ep.RecordTTL)

ExampleLine ==
    <<"e", "x", "a", "m", "p", "l", "e", ".", "c", "o", "m", " ", "3", "0", "0",
      " ", "I", "N", " ", "A", " ", "1", ".", "2", ".", "3", ".", "4">>

IsExample ==
    /\ in.ctor = "NewEndpointWithTTL"
    /\ in.dnsName = ExampleName
    /\ in.target = ExampleTarget
    /\ in.recordType = RecordTypeA
    /\ in.ttl = 300

C6_StringFormat ==
    lastOp = "String" =>
        /\ C6_Line(out, e)
        /\ IsExample => out = ExampleLine

C6_Witness ==
    /\ lastOp = "String"
    /\ IsExample
    /\ e.Labels.kv # EmptyKV
    /\ e.GeoLocation.ContinentCode # <<>>

\* C7: IsConfigured returns true exactly for a TTL above 0, false for 0 and
\* for a negative TTL; the record of NewEndpoint is not configured.
C7_IsConfigured ==
    lastOp = "IsConfigured" =>
        /\ e.RecordTTL >= 1 => configured
        /\ e.RecordTTL = 0 => ~configured
        /\ e.RecordTTL <= 0 - 1 => ~configured
        /\ in.ctor = "NewEndpoint" => ~configured

C7_Witness ==
    /\ lastOp = "IsConfigured"
    /\ in.ctor = "NewEndpoint"
    /\ ~configured

\* C8: a constructor returns a record with an empty, non-nil label mapping
\* and an all-empty GeoLocation, and no MergeLabels call ever panics.
C8_NeverFails ==
    /\ ~panicked
    /\ lastOp \in Constructors =>
          /\ ~e.Labels.nil
          /\ DOMAIN e.Labels.kv = {}
          /\ e.GeoLocation.ContinentCode = <<>>
          /\ e.GeoLocation.CountryCode = <<>>
          /\ e.GeoLocation.SubdivisionCode = <<>>

C8_Witness ==
    /\ lastOp = "MergeLabels"
    /\ ~labels.alias
    /\ labels.given.nil
    /\ DOMAIN e.Labels.kv = {OwnerLabelKey, "k"}

\* C9: from every reachable record and for all codes c, k, s the calls
\* SetContinentCode(c), SetCountryCode(k), SetSubdivisionCode(s) give the
\* same final record and the same outcome of each call in all six orders.
C9_Call(ep, op, c, k, s) ==
    CASE op = "SetContinentCode" -> SetContinentCode(ep, c)
      [] op = "SetCountryCode" -> SetCountryCode(ep, k)
      [] op = "SetSubdivisionCode" -> SetSubdivisionCode(ep, s)

C9_Run(ep, order, c, k, s) ==
    LET r1 == C9_Call(ep, order[1], c, k, s)
        r2 == C9_Call(r1.e, order[2], c, k, s)
        r3 == C9_Call(r2.e, order[3], c, k, s)
    IN [e |-> r3.e,
        errs |-> {<<order[1], r1.err>>, <<order[2], r2.err>>, <<order[3], r3.err>>}]

C9_Orders ==
    {o \in [1..3 -> Setters] : \A i, j \in 1..3 : o[i] = o[j] => i = j}

C9_NoOrderDependency ==
    LET orders == C9_Orders
        first == <<"SetContinentCode", "SetCountryCode", "SetSubdivisionCode">>
    IN \A c \in OrderCodes, k \in OrderCodes, s \in OrderCodes :
           LET r == C9_Run(e, first, c, k, s)
           IN \A o \in orders : C9_Run(e, o, c, k, s) = r

C9_Witness ==
    /\ lastOp \in Setters
    /\ e.GeoLocation.ContinentCode = <<"*">>
    /\ e.GeoLocation.CountryCode = <<"X", "X">>
    /\ e.GeoLocation.SubdivisionCode = <<"A", "B", "C">>

\* C10: a setter changes at most its own field of the record, whether it
\* succeeds or fails; MergeLabels changes at most Labels and leaves the
\* mapping it is given as it was.
C10_SameBut(old, new, fields) ==
    /\ new.DNSName = old.DNSName
    /\ new.Target = old.Target
    /\ new.RecordType = old.RecordType
    /\ new.RecordTTL = old.RecordTTL
    /\ "Labels" \notin fields => new.Labels = old.Labels
    /\ "ContinentCode" \notin fields =>
          new.GeoLocation.ContinentCode = old.GeoLocation.ContinentCode
    /\ "CountryCode" \notin fields =>
          new.GeoLocation.CountryCode = old.GeoLocation.CountryCode
    /\ "SubdivisionCode" \notin fields =>
          new.GeoLocation.SubdivisionCode = old.GeoLocation.SubdivisionCode

C10_Frame ==
    [][/\ lastOp' = "SetContinentCode" => C10_SameBut(e, e', {"ContinentCode"})
       /\ lastOp' = "SetCountryCode" => C10_SameBut(e, e', {"CountryCode"})
       /\ lastOp' = "SetSubdivisionCode" => C10_SameBut(e, e', {"SubdivisionCode"})
       /\ lastOp' = "MergeLabels" =>
             /\ C10_SameBut(e, e', {"Labels"})
             /\ labels'.after = labels'.given
             /\ labels'.alias => labels'.given = e.Labels]_vars

C10_Witness ==
    /\ lastOp = "SetCountryCode"
    /\ ~err
    /\ e.GeoLocation.CountryCode = <<"E", "U">>
    /\ e.GeoLocation.SubdivisionCode = <<>>
    /\ e.GeoLocation.ContinentCode = <<"E", "U">>
    /\ e.Labels.kv # EmptyKV
    /\ e.RecordTTL = 300

====
